---- MODULE Spec2Model ----
(***************************************************************************)
(* Model of sequelize-graphql (src/index.ts, second listing, lines 157-378):*)
(* the compiler from a GraphQL selection tree to Sequelize FindOptions.    *)
(*                                                                         *)
(* JavaScript values are tagged records [t |-> type, v |-> value] so that  *)
(* `undefined`, `false`, `0` and `[]` stay distinct.  Strings that the     *)
(* code parses (filter keys, order columns) are sequences of tokens: the   *)
(* delimiter "$", the separator "." and identifiers.                       *)
(***************************************************************************)
EXTENDS Integers, Sequences, FiniteSets, TLC

VARIABLES pc, call, model, args, fieldNodes, selections, result, touched, trace

vars == <<pc, call, model, args, fieldNodes, selections, result, touched, trace>>

---------------------------------------------------------------------------
(* Bounds of the explored inputs *)

MaxSel == 2        \* length of the root selection list of a request
MaxLen == 3        \* length of a list handed to resolveFragments directly
MaxKeys == 2       \* number of keys of a filter object
MaxOrder == 1      \* length of the root orderBy list

---------------------------------------------------------------------------
(* JavaScript values *)

Undef == [t |-> "undefined"]
Null == [t |-> "null"]
Num(n) == [t |-> "num", v |-> n]
Bool(b) == [t |-> "bool", v |-> b]
List(s) == [t |-> "list", v |-> s]
Obj(o) == [t |-> "obj", v |-> o]

\* JavaScript truthiness of a value (objects and arrays are truthy)
Truthy(x) ==
  CASE x.t = "undefined" -> FALSE
    [] x.t = "null" -> FALSE
    [] x.t = "num" -> x.v # 0
    [] x.t = "bool" -> x.v
    [] OTHER -> TRUE

Ok(v) == [ok |-> TRUE, val |-> v]
Throw(m) == [ok |-> FALSE, msg |-> m]

RECURSIVE SelectSeq2(_, _)
\* Array.prototype.filter with a set of admitted positions
SelectSeq2(s, keep) ==
  IF s = <<>> THEN <<>>
  ELSE LET rest == SelectSeq2(Tail(s), {i - 1 : i \in keep \ {1}})
       IN IF 1 \in keep THEN <<Head(s)>> \o rest ELSE rest

\* the sequence s without its element at position i
RemoveAt(s, i) == SubSeq(s, 1, i - 1) \o SubSeq(s, i + 1, Len(s))

---------------------------------------------------------------------------
(* The entity schema: the Sequelize models the compiler reads *)

rawAttributes ==
  [Person |-> {"id", "name", "bestFriendId"},
   Team |-> {"id", "title"},
   Log |-> {"msg"}]

\* Model.primaryKeyAttribute: the first primary key, undefined without one
primaryKeyAttribute ==
  [Person |-> <<"id">>, Team |-> <<"id">>, Log |-> <<>>]

\* Model.primaryKeyAttributes: the list of primary keys
primaryKeyAttributes ==
  [Person |-> <<"id">>, Team |-> <<"id">>, Log |-> <<>>]

\* Model.associations: association name -> target model
associations ==
  [Person |-> [bestFriend |-> "Person", team |-> "Team"],
   Team |-> [owner |-> "Person", logs |-> "Log"],
   Log |-> <<>>]

Models == {"Person", "Team", "Log"}

HasAssociation(m, name) == name \in DOMAIN associations[m]

\* the Association object model.associations[name]
Assoc(m, name) == [source |-> m, as |-> name, target |-> associations[m][name]]

---------------------------------------------------------------------------
(* The GraphQL selection AST *)

NoSelectionSet == [t |-> "undefined"]
SelectionSet(s) == [t |-> "set", selections |-> s]

Field(name, arguments, selectionSet) ==
  [kind |-> "Field", name |-> name, arguments |-> arguments,
   selectionSet |-> selectionSet]

Leaf(name) == Field(name, <<>>, NoSelectionSet)

FragmentSpread(name) ==
  [kind |-> "FragmentSpread", name |-> name, arguments |-> <<>>,
   selectionSet |-> NoSelectionSet]

\* info.fragments: an acyclic fragment table; Deep spreads PersonFields
fragments ==
  [PersonFields |-> <<Leaf("id"), Leaf("name")>>,
   Friend |-> <<Field("bestFriend", <<>>, SelectionSet(<<Leaf("name")>>))>>,
   Deep |-> <<Leaf("bestFriendId"), FragmentSpread("PersonFields")>>]

\* info.variableValues
variableValues ==
  [n |-> Num(2), z |-> Num(0),
   ord |-> List(<<[col |-> <<"name">>, dir |-> "DESC"]>>),
   w |-> Obj(<<[key |-> <<"$", "team", ".", "title", "$">>, val |-> Num(1)]>>)]

---------------------------------------------------------------------------
(* resolveFragments *)

\* a working array element: the node, its position in the array the call
\* received (object identity) and the spread it was copied in for
Item(node, uid, from) == [node |-> node, uid |-> uid, from |-> from]

Tagged(s) == [i \in 1..Len(s) |-> Item(s[i], i, 0)]
Nodes(items) == [i \in 1..Len(items) |-> items[i].node]

\* Array.prototype.indexOf by object identity; 0 stands for JavaScript's -1
IndexOf(items, uid) ==
  IF \E i \in 1..Len(items) : items[i].uid = uid
  THEN CHOOSE i \in 1..Len(items) :
         /\ items[i].uid = uid
         /\ \A j \in 1..(i - 1) : items[j].uid # uid
  ELSE 0

\* selections.splice(idx, 1); splice(-1, 1) removes the last element
Splice1(items, idx) ==
  IF idx = 0
  THEN (IF items = <<>> THEN items ELSE SubSeq(items, 1, Len(items) - 1))
  ELSE RemoveAt(items, idx)

\* the in-place variant: the fragment's contents take the spread's position
SpliceInPlace(items, idx, spreadUid, contents) ==
  IF idx = 0 THEN Splice1(items, idx)
     \o [i \in 1..Len(contents) |-> Item(contents[i], 0, spreadUid)]
  ELSE SubSeq(items, 1, idx - 1)
     \o [i \in 1..Len(contents) |-> Item(contents[i], 0, spreadUid)]
     \o SubSeq(items, idx + 1, Len(items))

\* selections = [...selections, ...fragment.selectionSet.selections]
\* after the splice: the fragment's contents are appended at the end
SpliceAppend(items, idx, spreadUid, contents) ==
  Splice1(items, idx)
     \o [i \in 1..Len(contents) |-> Item(contents[i], 0, spreadUid)]

RECURSIVE forEachSelection(_, _, _, _, _)
\* selections.forEach(...) of resolveFragments.  A is the array object the
\* call received and forEach iterates (len0 is its length when the loop
\* started; positions that no longer exist are skipped); sel is the value of
\* the variable `selections`, which is A itself until the first spread
\* rebinds it (split).
forEachSelection(A, sel, split, k, len0) ==
  IF k > len0
  THEN [ok |-> TRUE, out |-> IF split THEN sel ELSE A, arr |-> A]
  ELSE IF k > Len(A) THEN forEachSelection(A, sel, split, k + 1, len0)
  ELSE IF A[k].node.kind # "FragmentSpread"
       THEN forEachSelection(A, sel, split, k + 1, len0)
  ELSE LET cur == IF split THEN sel ELSE A
           idx == IndexOf(cur, A[k].uid)
           name == A[k].node.name
           A2 == IF split THEN A ELSE Splice1(A, idx)
       IN IF name \notin DOMAIN fragments
          \* fragment is undefined: the splice has happened, then
          \* fragment.selectionSet throws a TypeError
          THEN [ok |-> FALSE, msg |-> <<"TypeError", name>>, arr |-> A2]
          ELSE forEachSelection(A2,
                 SpliceAppend(cur, idx, A[k].uid, fragments[name]),
                 TRUE, k + 1, len0)

\* resolveFragments(selections, info): out is the returned list, arr the
\* final contents of the array object that was passed in
resolveFragments(s) == forEachSelection(Tagged(s), Tagged(s), FALSE, 1, Len(s))

---------------------------------------------------------------------------
(* Field lists *)

\* fields.map(fieldSelection => fieldSelection.name.value)
getFieldNames(fields) == [i \in 1..Len(fields) |-> fields[i].name]

\* fields.filter(field => !field.selectionSet)
LeafFields(fields) ==
  SelectSeq2(fields, {i \in 1..Len(fields) : fields[i].selectionSet.t = "undefined"})

\* names.filter(value => value in model.rawAttributes)
KnownAttributes(names, m) ==
  SelectSeq2(names, {i \in 1..Len(names) : names[i] \in rawAttributes[m]})

\* the same call without the copy: the caller's array is the one spliced
ExpandShared(list) == resolveFragments(list)

\* `.slice()` followed by resolveFragments: the array that the expansion
\* splices is the copy, the caller's array keeps its contents
ExpandCopy(list) ==
  LET r == resolveFragments(list)
  IN [r EXCEPT !.arr = Tagged(list)]

\* fields.filter(field => field.name.value !== "__typename") on the
\* expansion r of the root selection; nodes is the root selection list
\* after the call
SelectedOf(nodes, r) ==
  IF r.ok
  THEN [ok |-> TRUE,
        val |-> SelectSeq2(Nodes(r.out),
                  {i \in 1..Len(r.out) : r.out[i].node.name # "__typename"}),
        nodes |-> [nodes EXCEPT ![1].selectionSet.selections = Nodes(r.arr)]]
  ELSE [ok |-> FALSE, msg |-> r.msg,
        nodes |-> [nodes EXCEPT ![1].selectionSet.selections = Nodes(r.arr)]]

\* getSelectedFields(info)
getSelectedFields(nodes) ==
  IF Len(nodes) = 0 \/ nodes[1].selectionSet.t = "undefined"
  THEN [ok |-> TRUE, val |-> <<>>, nodes |-> nodes]
  ELSE SelectedOf(nodes, ExpandCopy(nodes[1].selectionSet.selections))

\* .filter(field => !field.selectionSet) on the selected fields
LeafOnly(r) == IF r.ok THEN [r EXCEPT !.val = LeafFields(r.val)] ELSE r

\* getRootFields(info)
getRootFields(nodes) == LeafOnly(getSelectedFields(nodes))

\* getFieldNames(...) on the root fields
NamesOnly(r) == IF r.ok THEN [r EXCEPT !.val = getFieldNames(r.val)] ELSE r

\* getRootFieldNames(info)
getRootFieldNames(nodes) == NamesOnly(getRootFields(nodes))

---------------------------------------------------------------------------
(* Filters, join columns and the join-path resolver *)

\* a filter object is Obj(<<entry, ...>>) with entries in key order
Entry(key, val) == [key |-> key, val |-> val]

RECURSIVE AppendNew(_, _)
\* Object.assign(keys, more) on the key order: new keys go to the end
AppendNew(keys, more) ==
  IF more = <<>> THEN keys
  ELSE AppendNew(IF \E i \in 1..Len(keys) : keys[i] = Head(more)
                 THEN keys ELSE Append(keys, Head(more)),
                 Tail(more))

\* Object.keys / obj[key] of an object or an array
OwnEntries(x) ==
  IF x.t = "obj" THEN x.v
  ELSE IF x.t = "list" THEN [i \in 1..Len(x.v) |-> Entry(<<ToString(i - 1)>>, x.v[i])]
  ELSE <<>>

RECURSIVE traverseKeys(_)
RECURSIVE traverseEntries(_, _)
\* the forEach of traverseKeys over the entries of one object
traverseEntries(entries, keys) ==
  IF entries = <<>> THEN Ok(keys)
  ELSE LET e == Head(entries)
           own == AppendNew(keys, <<e.key>>)
       IN IF e.val.t \in {"obj", "list", "null"}   \* typeof === 'object'
          THEN LET sub == traverseKeys(e.val)
               IN IF sub.ok
                  THEN traverseEntries(Tail(entries), AppendNew(own, sub.val))
                  ELSE sub
          ELSE traverseEntries(Tail(entries), own)

\* traverseKeys(obj): the keys of obj and of every nested object, each once
traverseKeys(x) ==
  IF x.t = "null" THEN Throw(<<"TypeError", "Object.keys", "null">>)
  ELSE traverseEntries(OwnEntries(x), <<>>)

\* getAllKeys(obj)
getAllKeys(x) == traverseKeys(x)

\* key.startsWith('$') && key.endsWith('$') && key.includes('.')
IsJoinColumn(key) ==
  /\ key # <<>>
  /\ key[1] = "$"
  /\ key[Len(key)] = "$"
  /\ \E i \in 1..Len(key) : key[i] = "."

\* column.replace(/\$/g, '')
StripDollars(key) == SelectSeq2(key, {i \in 1..Len(key) : key[i] # "$"})

RECURSIVE Split(_)
\* str.split('.'): the list of the parts between the separators
Split(key) ==
  IF \E i \in 1..Len(key) : key[i] = "."
  THEN LET d == CHOOSE i \in 1..Len(key) :
                  key[i] = "." /\ \A j \in 1..(i - 1) : key[j] # "."
       IN <<SubSeq(key, 1, d - 1)>> \o Split(SubSeq(key, d + 1, Len(key)))
  ELSE <<key>>

\* parts.pop()
Pop(parts) == SubSeq(parts, 1, Len(parts) - 1)

\* a plan node (IncludeOptions)
PlanNode(m, where, order, limit, separate, as, attributes, required, include) ==
  [model |-> m, where |-> where, order |-> order, limit |-> limit,
   separate |-> separate, as |-> as, attributes |-> attributes,
   required |-> required, include |-> include]

\* a synthesized node that projects every attribute (no attribute list)
NewIncludeAllAttributes(m, foreignField) ==
  PlanNode(m, Undef, Undef, Undef, Undef, foreignField, Undef, Undef, <<>>)

\* the literal { model, as, attributes: primaryKeyAttributes, include: [] }
NewInclude(m, foreignField) ==
  PlanNode(m, Undef, Undef, Undef, Undef, foreignField,
           List(primaryKeyAttributes[m]), Undef, <<>>)

\* a lookup that compares the node's alias with the model instead of the
\* leg's name: it finds nothing and every leg gets a new node
FindByModel(includes, m, foreignField) ==
  IF \E i \in 1..Len(includes) : includes[i].model = m /\ includes[i].as = m
  THEN CHOOSE i \in 1..Len(includes) : includes[i].model = m /\ includes[i].as = m
  ELSE 0

\* currentIncludes.find(include => include.model === currentModel &&
\* include.as === foreignField): the position of the first match, or 0
FindInclude(includes, m, foreignField) ==
  IF \E i \in 1..Len(includes) :
       includes[i].model = m /\ includes[i].as = foreignField
  THEN CHOOSE i \in 1..Len(includes) :
         /\ includes[i].model = m /\ includes[i].as = foreignField
         /\ \A j \in 1..(i - 1) :
              ~(includes[j].model = m /\ includes[j].as = foreignField)
  ELSE 0

RECURSIVE walkLegs(_, _, _)
\* the while loop of applyIncludes over the remaining parts: val is the
\* sibling list after the walk, chain the associations handed to callback
walkLegs(parts, includes, currentModel) ==
  IF parts = <<>> \/ Head(parts) = <<>>      \* shift() gave undefined or ''
  THEN [ok |-> TRUE, val |-> includes, chain |-> <<>>]
  ELSE LET part == Head(parts)
       IN IF ~(Len(part) = 1 /\ HasAssociation(currentModel, part[1]))
          THEN Throw(<<"Error", "No association found for", currentModel, part>>)
          ELSE
            LET foreignField == part[1]
                assoc == Assoc(currentModel, foreignField)
                target == assoc.target
                found == FindInclude(includes, target, foreignField)
                withNode == IF found = 0
                            THEN Append(includes, NewInclude(target, foreignField))
                            ELSE includes
                at == IF found = 0 THEN Len(withNode) ELSE found
                rest == walkLegs(Tail(parts), withNode[at].include, target)
            IN IF rest.ok
               THEN [ok |-> TRUE,
                     val |-> [withNode EXCEPT ![at].include = rest.val],
                     chain |-> <<assoc>> \o rest.chain]
               ELSE rest

\* applyIncludes(column, includes, model, callback)
applyIncludes(column, includes, m) ==
  walkLegs(Pop(Split(StripDollars(column))), includes, m)

RECURSIVE applyColumns(_, _, _)
\* joinColumns.forEach(column => applyIncludes(column, includes, model))
applyColumns(columns, includes, m) ==
  IF columns = <<>> THEN Ok(includes)
  ELSE LET r == applyIncludes(Head(columns), includes, m)
       IN IF r.ok THEN applyColumns(Tail(columns), r.val, m) ELSE r

\* the join columns among the keys of a filter
joinColumns(where) ==
  LET keys == getAllKeys(where)
  IN IF keys.ok
     THEN Ok(SelectSeq2(keys.val,
                {i \in 1..Len(keys.val) : IsJoinColumn(keys.val[i])}))
     ELSE keys

\* applyWhereIncludes(where, includes, model)
applyWhereIncludes(where, includes, m) ==
  LET cols == joinColumns(where)
  IN IF cols.ok THEN applyColumns(cols.val, includes, m) ELSE cols

\* one ordering instruction: [...joinChain, col, dir]
Instr(chain, col, dir) == [chain |-> chain, col |-> col, dir |-> dir]

RECURSIVE getOrder(_, _, _)
\* getOrder(orderBys, includes, model): val is the instruction list,
\* includes the sibling list after the joins of the paths were resolved
getOrder(orderBys, includes, m) ==
  IF orderBys = <<>> THEN [ok |-> TRUE, val |-> <<>>, includes |-> includes]
  ELSE LET order == Head(orderBys)
           dotted == \E i \in 1..Len(order.col) : order.col[i] = "."
           parts == Split(order.col)
           r == IF dotted THEN applyIncludes(order.col, includes, m)
                ELSE [ok |-> TRUE, val |-> includes, chain |-> <<>>]
       IN IF ~r.ok THEN r
          ELSE LET rest == getOrder(Tail(orderBys), r.val, m)
                   instr == IF dotted
                            THEN Instr(r.chain, parts[Len(parts)], order.dir)
                            ELSE Instr(<<>>, order.col, order.dir)
               IN IF rest.ok
                  THEN [rest EXCEPT !.val = <<instr>> \o rest.val]
                  ELSE rest

---------------------------------------------------------------------------
(* Arguments of a selection field *)

Argument(name, value) == [name |-> name, value |-> value]
Variable(name) == [kind |-> "Variable", name |-> name]
IntValue(n) == [kind |-> "IntValue", value |-> n]
BooleanValue(b) == [kind |-> "BooleanValue", value |-> b]
ListValue(vs) == [kind |-> "ListValue", values |-> vs]
\* an input object literal {col: "...", dir: ...}
OrderValue(col, dir) == [kind |-> "ObjectValue", col |-> col, dir |-> dir]

RECURSIVE valueFromASTUntyped(_)
\* graphql's valueFromASTUntyped on the literal kinds used here
valueFromASTUntyped(v) ==
  CASE v.kind = "IntValue" -> Num(v.value)
    [] v.kind = "BooleanValue" -> Bool(v.value)
    [] v.kind = "NullValue" -> Null
    [] v.kind = "ListValue" ->
         List([i \in 1..Len(v.values) |-> valueFromASTUntyped(v.values[i]).v])
    [] v.kind = "ObjectValue" -> Obj([col |-> v.col, dir |-> v.dir])

\* variables[argument.value.name.value]
VariableValue(name) ==
  IF name \in DOMAIN variableValues THEN variableValues[name] ELSE Undef

\* the value one argument contributes to args
ArgumentValue(a) ==
  IF a.value.kind = "Variable" THEN VariableValue(a.value.name)
  ELSE valueFromASTUntyped(a.value)

\* field.arguments.forEach(...): args as a map, a later argument of the
\* same name overwrites an earlier one
ArgsOf(arguments) ==
  [name \in {arguments[i].name : i \in 1..Len(arguments)} |->
     LET last == CHOOSE i \in 1..Len(arguments) :
                   /\ arguments[i].name = name
                   /\ \A j \in (i + 1)..Len(arguments) : arguments[j].name # name
     IN ArgumentValue(arguments[last])]

---------------------------------------------------------------------------
(* getIncludes *)

\* the attribute list of a node: the known leaf names, the primary key
\* unshifted in front when it is declared and missing
NodeAttributes(selections_, m) ==
  LET names == KnownAttributes(getFieldNames(LeafFields(selections_)), m)
      pk == primaryKeyAttribute[m]
  IN IF pk # <<>> /\ ~(\E i \in 1..Len(names) : names[i] = pk[1])
     THEN <<pk[1]>> \o names
     ELSE names

\* separate set by orderBy alone
SeparateOrderOnly(a) == "orderBy" \in DOMAIN a

\* separate as the argument block leaves it
Separate(a) ==
  ("orderBy" \in DOMAIN a) \/ ("limit" \in DOMAIN a /\ Truthy(a["limit"]))

\* fields.filter(field => field.name.value in parentModel.associations)
nestedFields(fields, parentModel) ==
  SelectSeq2(fields,
    {i \in 1..Len(fields) : HasAssociation(parentModel, fields[i].name)})

\* attributes left unset as soon as no leaf field is selected
AttributesIfLeaf(selections_, m) ==
  IF LeafFields(selections_) # <<>> THEN List(NodeAttributes(selections_, m))
  ELSE Undef

\* attributes: selections.length > 0 ? attributes : undefined
AttributesOrUndefined(selections_, m) ==
  IF Len(selections_) > 0 THEN List(NodeAttributes(selections_, m)) ELSE Undef

RECURSIVE getIncludes(_, _)
RECURSIVE includeOf(_, _)
RECURSIVE includeExpanded(_, _, _)
RECURSIVE includeWithArgs(_, _, _, _, _)
RECURSIVE includeWithChildren(_, _, _, _, _, _)
RECURSIVE mapIncludes(_, _)
RECURSIVE mapRest(_, _, _)

\* the return statement of the map callback: the node, once the children
\* were built (sub) and the join columns of its own filter bound to them
IncludeNode(field, m, selections_, a, log, bound) ==
  IF ~bound.ok THEN [ok |-> FALSE, msg |-> bound.msg, touched |-> log]
  ELSE [ok |-> TRUE,
        val |-> PlanNode(m,
                  IF "where" \in DOMAIN a THEN a["where"] ELSE Undef,
                  IF "orderBy" \in DOMAIN a
                  THEN List([i \in 1..Len(a["orderBy"].v) |->
                          Instr(<<>>, a["orderBy"].v[i].col, a["orderBy"].v[i].dir)])
                  ELSE Undef,
                  IF "limit" \in DOMAIN a /\ Truthy(a["limit"])
                  THEN a["limit"] ELSE Undef,
                  Bool(Separate(a)),
                  field.name,
                  AttributesOrUndefined(selections_, m),
                  IF "required" \in DOMAIN a THEN a["required"] ELSE Bool(FALSE),
                  bound.val),
        touched |-> log]

\* const includes = getIncludes(...); applyWhereIncludes(where || {}, ...)
includeWithChildren(field, m, selections_, a, log, sub) ==
  IF ~sub.ok
  THEN [ok |-> FALSE, msg |-> sub.msg, touched |-> log \cup sub.touched]
  ELSE IncludeNode(field, m, selections_, a, log \cup sub.touched,
         applyWhereIncludes(
           IF "where" \in DOMAIN a /\ Truthy(a["where"]) THEN a["where"]
           ELSE Obj(<<>>),
           sub.val, m))

\* the argument block: args.orderBy.map throws unless orderBy is an array
includeWithArgs(field, m, selections_, a, log) ==
  IF "orderBy" \in DOMAIN a /\ a["orderBy"].t # "list"
  THEN [ok |-> FALSE, msg |-> <<"TypeError", "orderBy.map">>, touched |-> log]
  ELSE includeWithChildren(field, m, selections_, a, log,
         getIncludes(selections_, m))

\* what the expansion exp of the field's own selection list did to it
Touched(field, exp) ==
  IF field.selectionSet.t = "undefined" THEN {}
  ELSE {[before |-> field.selectionSet.selections, after |-> Nodes(exp.arr)]}

\* the model lookup, after the field's selection was expanded (exp)
includeExpanded(field, parentModel, exp) ==
  IF ~exp.ok
  THEN [ok |-> FALSE, msg |-> exp.msg, touched |-> Touched(field, exp)]
  ELSE IF ~HasAssociation(parentModel, field.name)
  THEN [ok |-> FALSE,
        msg |-> <<"Error", "Field not supported", parentModel, field.name>>,
        touched |-> Touched(field, exp)]
  ELSE includeWithArgs(field, associations[parentModel][field.name],
         Nodes(exp.out), ArgsOf(field.arguments), Touched(field, exp))

\* the body of nestedFields.map(...): the plan node of one field
includeOf(field, parentModel) ==
  IF field.selectionSet.t = "undefined"
  THEN includeExpanded(field, parentModel,
         [ok |-> TRUE, out |-> <<>>, arr |-> <<>>])
  ELSE includeExpanded(field, parentModel,
         ExpandCopy(field.selectionSet.selections))

\* the array of the map: the node of the first field before the others
MapJoin(first, rest) ==
  IF rest.ok
  THEN [ok |-> TRUE, val |-> <<first.val>> \o rest.val,
        touched |-> first.touched \cup rest.touched]
  ELSE [rest EXCEPT !.touched = first.touched \cup @]

\* the nodes of the fields after the first
mapRest(fields, parentModel, first) ==
  IF ~first.ok THEN first
  ELSE MapJoin(first, mapIncludes(Tail(fields), parentModel))

\* nestedFields.map(...), one field after the other
mapIncludes(fields, parentModel) ==
  IF fields = <<>> THEN [ok |-> TRUE, val |-> <<>>, touched |-> {}]
  ELSE mapRest(fields, parentModel, includeOf(Head(fields), parentModel))

\* getIncludes(fields, info, parentModel)
getIncludes(fields, parentModel) ==
  mapIncludes(nestedFields(fields, parentModel), parentModel)

---------------------------------------------------------------------------
(* getSequelizeQuery *)

\* getRootFieldNames(info).filter(fieldName => fieldName in model.rawAttributes)
RootAttributes(names, m) == KnownAttributes(names, m)

Failed(msg, nodes, log, tr) ==
  [result |-> Throw(msg), nodes |-> nodes, touched |-> log, trace |-> tr]

NoTrace == [selected |-> <<>>, bound |-> <<>>]

RootLog(nodes, after) ==
  IF Len(nodes) = 0 \/ nodes[1].selectionSet.t = "undefined" THEN {}
  ELSE {[before |-> nodes[1].selectionSet.selections,
         after |-> after[1].selectionSet.selections]}

\* the return statement: order is getOrder(...) or [], include the array
\* that applyWhereIncludes and getOrder pushed into
FindOptions(a, attributes, nodes, log, include, bound, order) ==
  IF ~order.ok
  THEN Failed(order.msg, nodes, log, [selected |-> include, bound |-> bound])
  ELSE [result |->
          Ok([where |-> IF Truthy(a.where) THEN a.where ELSE Undef,
              include |-> order.includes,
              attributes |-> attributes,
              limit |-> IF Truthy(a.limit) THEN a.limit ELSE Num(100),
              order |-> order.val]),
        nodes |-> nodes,
        touched |-> log,
        trace |-> [selected |-> include, bound |-> bound]]

\* order: args.orderBy ? getOrder(args.orderBy, include, model) : []
queryOrdered(a, m, attributes, nodes, log, include, bound) ==
  IF ~bound.ok
  THEN Failed(bound.msg, nodes, log, [selected |-> include, bound |-> <<>>])
  ELSE FindOptions(a, attributes, nodes, log, include, bound.val,
         IF Truthy(a.orderBy) THEN getOrder(a.orderBy.v, bound.val, m)
         ELSE [ok |-> TRUE, val |-> <<>>, includes |-> bound.val])

\* applyWhereIncludes(args.where || {}, include, model)
queryBound(a, m, attributes, nodes, log, include) ==
  IF ~include.ok
  THEN Failed(include.msg, nodes, log \cup include.touched, NoTrace)
  ELSE queryOrdered(a, m, attributes, nodes, log \cup include.touched,
         include.val,
         applyWhereIncludes(IF Truthy(a.where) THEN a.where ELSE Obj(<<>>),
                            include.val, m))

\* const include = getIncludes(fields, info, model)
queryIncludes(a, nodes, m, fields, names) ==
  IF ~fields.ok
  THEN Failed(fields.msg, fields.nodes,
              RootLog(nodes, fields.nodes) \cup RootLog(fields.nodes, names.nodes),
              NoTrace)
  ELSE IF ~names.ok
  THEN Failed(names.msg, names.nodes,
              RootLog(nodes, fields.nodes) \cup RootLog(fields.nodes, names.nodes),
              NoTrace)
  ELSE queryBound(a, m, RootAttributes(names.val, m), names.nodes,
         RootLog(nodes, fields.nodes) \cup RootLog(fields.nodes, names.nodes),
         getIncludes(fields.val, m))

\* const attributes = getRootFieldNames(info).filter(...)
queryAttributes(a, nodes, m, fields) ==
  queryIncludes(a, nodes, m, fields, getRootFieldNames(fields.nodes))

\* getSequelizeQuery(args, info, model)
getSequelizeQuery(a, nodes, m) ==
  queryAttributes(a, nodes, m, getSelectedFields(nodes))

---------------------------------------------------------------------------
(* The explored inputs *)

SeqsUpTo(S, n) == UNION {[1..k -> S] : k \in 0..n}

\* sequences without repetition: the keys of one object are distinct
DistinctSeqsUpTo(S, n) ==
  {q \in SeqsUpTo(S, n) : \A i, j \in 1..Len(q) : i # j => q[i] # q[j]}

Sel(list) == SelectionSet(list)

\* the items a root selection list is drawn from
RootItems ==
  { Leaf("id"), Leaf("name"), Leaf("bogus"),
    FragmentSpread("PersonFields"), FragmentSpread("Friend"),
    FragmentSpread("Deep"), FragmentSpread("Missing"),
    Field("bestFriend", <<>>, Sel(<<Leaf("name")>>)),
    Field("bestFriend", <<>>,
          Sel(<<Field("bestFriend", <<>>, Sel(<<Leaf("id"), Leaf("bogus")>>))>>)),
    Field("bestFriend", <<>>, NoSelectionSet),
    Field("bestFriend",
          <<Argument("where", Variable("w")),
            Argument("required", BooleanValue(TRUE))>>,
          Sel(<<FragmentSpread("PersonFields"), FragmentSpread("Friend")>>)),
    Field("bestFriend", <<Argument("orderBy", ListValue(<<>>))>>,
          Sel(<<Leaf("name"), FragmentSpread("Deep")>>)),
    Field("team",
          <<Argument("limit", IntValue(2)),
            Argument("orderBy", ListValue(<<OrderValue(<<"title">>, "ASC")>>))>>,
          Sel(<<Leaf("title")>>)),
    Field("team", <<Argument("limit", Variable("z"))>>,
          Sel(<<Field("logs", <<Argument("limit", Variable("n"))>>,
                      Sel(<<Leaf("msg")>>)),
                Field("logs", <<>>, Sel(<<Field("nope", <<>>, Sel(<<Leaf("id")>>))>>)),
                Field("owner", <<Argument("orderBy", Variable("ord"))>>,
                      Sel(<<Leaf("name")>>))>>)),
    Field("team", <<Argument("orderBy", Variable("unbound"))>>,
          Sel(<<Leaf("id")>>)),
    Field("team",
          <<Argument("limit", IntValue(0)), Argument("where", Variable("w"))>>,
          Sel(<<Leaf("id")>>)) }

RootField(list) == <<Field("people", <<>>, Sel(list))>>

Key(legs, column) ==
  <<"$">> \o
  (IF legs = <<>> THEN <<>>
   ELSE [i \in 1..(2 * Len(legs)) |->
           IF i % 2 = 1 THEN legs[(i + 1) \div 2] ELSE "."])
  \o <<column, "$">>

\* the keys a filter object is built from
FilterKeys ==
  { Key(<<"bestFriend">>, "name"),
    Key(<<"bestFriend", "team">>, "title"),
    Key(<<"bestFriend", "team">>, "id"),
    Key(<<"team", "logs">>, "msg"),
    Key(<<"nope">>, "x"),
    <<"$", "bestFriend", ".", ".", "name", "$">>,
    <<"name">> }

FlatFilter(keys) == Obj([i \in 1..Len(keys) |-> Entry(keys[i], Num(1))])

\* flat filters, filters with one branch per key under "$or", and one
\* filter with a null operand
Filters ==
  {Undef}
  \cup {FlatFilter(q) : q \in DistinctSeqsUpTo(FilterKeys, MaxKeys)}
  \cup {Obj(<<Entry(<<"$", "or", "$">>,
                    List([i \in 1..Len(q) |-> FlatFilter(<<q[i]>>)]))>>) :
          q \in SeqsUpTo(FilterKeys, MaxKeys)}
  \cup {Obj(<<Entry(<<"name">>, Null)>>)}

SmallFilters ==
  {Undef, FlatFilter(<<Key(<<"bestFriend", "team">>, "title")>>)}

OrderColumns ==
  { <<"name">>,
    <<"bestFriend", ".", "name">>,
    <<"bestFriend", ".", "team", ".", "title">>,
    <<"nope", ".", "x">> }

SQLOrder(col, dir) == [col |-> col, dir |-> dir]

Orders ==
  {Undef}
  \cup {List(q) : q \in SeqsUpTo({SQLOrder(c, "ASC") : c \in OrderColumns}
                                 \cup {SQLOrder(<<"team", ".", "title">>, "DESC")},
                                 MaxOrder)}

SmallOrders == {Undef, List(<<SQLOrder(<<"bestFriend", ".", "id">>, "DESC")>>)}

SmallSelections ==
  { <<>>,
    <<Leaf("name"), Field("bestFriend", <<>>, Sel(<<Leaf("name")>>))>>,
    <<Field("bestFriend", <<>>,
            Sel(<<Field("team", <<>>, Sel(<<Leaf("title")>>))>>))>> }

Args(where, orderBy, limit) ==
  [where |-> where, orderBy |-> orderBy, limit |-> limit]

NoArgs == Args(Undef, Undef, Undef)
NoResult == [ok |-> FALSE, msg |-> <<"pending">>]

\* the lists handed to resolveFragments directly
ExpandItems ==
  { Leaf("id"), Leaf("name"),
    Field("bestFriend", <<>>, Sel(<<Leaf("name")>>)),
    FragmentSpread("PersonFields"), FragmentSpread("Friend"),
    FragmentSpread("Deep") }

---------------------------------------------------------------------------
(* The state machine: one call of an exported function per behaviour *)

\* requests whose selection varies
InitSelection ==
  /\ call = "query"
  /\ model \in {"Person", "Team"}
  /\ \E list \in SeqsUpTo(RootItems, MaxSel) : fieldNodes = RootField(list)
  /\ \E w \in SmallFilters, o \in SmallOrders, l \in {Undef, Num(5)} :
       args = Args(w, o, l)
  /\ selections = <<>>

\* requests whose filter and order vary
InitJoins ==
  /\ call = "query"
  /\ model = "Person"
  /\ \E list \in SmallSelections : fieldNodes = RootField(list)
  /\ \E w \in Filters, o \in Orders, l \in {Undef, Num(0)} :
       args = Args(w, o, l)
  /\ selections = <<>>

\* requests without a root field node or without a root selection set
InitNoSelection ==
  /\ call = "query"
  /\ model \in Models
  /\ fieldNodes \in {<<>>, <<Field("people", <<>>, NoSelectionSet)>>}
  /\ args \in {NoArgs, Args(FlatFilter(<<Key(<<"logs">>, "msg")>>), Undef, Undef)}
  /\ selections = <<>>

\* direct calls of resolveFragments
InitExpand ==
  /\ call = "expand"
  /\ model = "Person"
  /\ fieldNodes = <<>>
  /\ args = NoArgs
  /\ selections \in SeqsUpTo(ExpandItems, MaxLen)

Init ==
  /\ pc = "ready"
  /\ result = NoResult
  /\ touched = {}
  /\ trace = NoTrace
  /\ (InitSelection \/ InitJoins \/ InitNoSelection \/ InitExpand)

\* a resolver calls getSequelizeQuery(args, info, model)
GetSequelizeQuery ==
  /\ pc = "ready"
  /\ call = "query"
  /\ LET q == getSequelizeQuery(args, fieldNodes, model)
     IN /\ result' = q.result
        /\ fieldNodes' = q.nodes
        /\ touched' = q.touched
        /\ trace' = q.trace
  /\ pc' = "done"
  /\ UNCHANGED <<call, model, args, selections>>

\* a caller hands its own list to resolveFragments(selections, info)
ResolveFragments ==
  /\ pc = "ready"
  /\ call = "expand"
  /\ LET r == resolveFragments(selections)
     IN /\ result' = IF r.ok THEN Ok(r.out) ELSE Throw(r.msg)
        /\ selections' = Nodes(r.arr)
        /\ touched' = {[before |-> selections, after |-> Nodes(r.arr)]}
  /\ pc' = "done"
  /\ UNCHANGED <<call, model, args, fieldNodes, trace>>

Next == GetSequelizeQuery \/ ResolveFragments

Spec == Init /\ [][Next]_vars

---------------------------------------------------------------------------
(* Vocabulary of the properties *)

QueryDone == pc = "done" /\ call = "query"
QueryOk == QueryDone /\ result.ok
ExpandOk == pc = "done" /\ call = "expand" /\ result.ok

\* the root selection of the request as the include pass receives it
RootFields == getSelectedFields(fieldNodes).val

Expanded(field) ==
  IF field.selectionSet.t = "undefined" THEN <<>>
  ELSE Nodes(resolveFragments(field.selectionSet.selections).out)

RECURSIVE Subtree(_)
\* the nodes of the given sibling list and all their descendants
Subtree(includes) ==
  UNION {{includes[i]} \cup Subtree(includes[i].include) : i \in 1..Len(includes)}

RECURSIVE SiblingLists(_)
\* the given sibling list and the child list of every node below it
SiblingLists(includes) ==
  {includes} \cup UNION {SiblingLists(includes[i].include) : i \in 1..Len(includes)}

RECURSIVE Built(_, _, _)
\* the nodes the include pass built, each with the field it was built from
Built(fields, includes, m) ==
  LET nested == nestedFields(fields, m)
  IN UNION {{[field |-> nested[i], node |-> includes[i]]}
            \cup Built(Expanded(nested[i]), includes[i].include, includes[i].model) :
            i \in 1..Len(nested)}

RECURSIVE Synthesized(_, _, _)
\* the nodes no selection field stands for: added by a path resolution
Synthesized(fields, includes, m) ==
  LET nested == nestedFields(fields, m)
  IN UNION ({Synthesized(Expanded(nested[i]), includes[i].include,
                         includes[i].model) : i \in 1..Len(nested)}
            \cup {{includes[i]} \cup Subtree(includes[i].include) :
                    i \in (Len(nested) + 1)..Len(includes)})

CountAs(includes, as) == Cardinality({i \in 1..Len(includes) : includes[i].as = as})

\* the legs of a qualified path: its parts but the last, up to an empty one
RECURSIVE UntilEmpty(_)
UntilEmpty(parts) ==
  IF parts = <<>> \/ Head(parts) = <<>> THEN <<>>
  ELSE <<Head(parts)[1]>> \o UntilEmpty(Tail(parts))

Legs(column) == UntilEmpty(Pop(Split(StripDollars(column))))

\* the qualified paths the root filter and the root order refer to
RootPaths ==
  (IF Truthy(args.where) /\ getAllKeys(args.where).ok
   THEN {Legs(k) : k \in {getAllKeys(args.where).val[i] :
                     i \in {j \in 1..Len(getAllKeys(args.where).val) :
                              IsJoinColumn(getAllKeys(args.where).val[j])}}}
   ELSE {})
  \cup (IF Truthy(args.orderBy)
        THEN {Legs(args.orderBy.v[i].col) : i \in 1..Len(args.orderBy.v)}
        ELSE {})

First(includes, as) == CHOOSE i \in 1..Len(includes) :
  includes[i].as = as /\ \A j \in 1..(i - 1) : includes[j].as # as

RECURSIVE OneNodePerLeg(_, _, _)
\* along the legs, every sibling list holds as many nodes of the leg's alias
\* as the include pass built there, and exactly one where it built none
OneNodePerLeg(legs, final, selected) ==
  \/ legs = <<>>
  \/ /\ CountAs(final, Head(legs)) =
          (IF CountAs(selected, Head(legs)) = 0 THEN 1
           ELSE CountAs(selected, Head(legs)))
     /\ OneNodePerLeg(Tail(legs),
          final[First(final, Head(legs))].include,
          IF CountAs(selected, Head(legs)) = 0 THEN <<>>
          ELSE selected[First(selected, Head(legs))].include)

RECURSIVE ChainRefers(_, _, _)
\* every association of an order instruction's join chain is the one of the
\* single node its leg resolved to
ChainRefers(chain, includes, m) ==
  \/ chain = <<>>
  \/ /\ chain[1].source = m
     /\ \E i \in 1..Len(includes) :
          /\ includes[i].as = chain[1].as
          /\ includes[i].model = chain[1].target
          /\ ChainRefers(Tail(chain), includes[i].include, chain[1].target)

---------------------------------------------------------------------------
(* C1 *)

---------------------------------------------------------------------------
(* C2 *)

\* C2 (sibling aliases): in every plan produced by getSequelizeQuery the
\* aliases of the nodes of every child list, the root's included, are
\* pairwise distinct.
C2_SiblingAliasesDistinct ==
  QueryOk =>
    \A list \in SiblingLists(result.val.include) :
      \A i, j \in 1..Len(list) : i # j => list[i].as # list[j].as

---------------------------------------------------------------------------
(* C3 *)

HasKey(m, attributes) ==
  (primaryKeyAttribute[m] # <<>> /\ attributes # <<>>) =>
    \E i \in 1..Len(attributes) : attributes[i] = primaryKeyAttribute[m][1]

\* C3 (primary key inclusion): every plan node of the result, the root node
\* included, whose attribute list is non-empty holds the primary key of its
\* entity when the entity declares one.
C3_PrimaryKeyIncluded ==
  QueryOk =>
    /\ HasKey(model, result.val.attributes)
    /\ \A node \in Subtree(result.val.include) :
         node.attributes.t = "list" => HasKey(node.model, node.attributes.v)

---------------------------------------------------------------------------
(* C4 *)

\* the root selection names a field that is neither an attribute nor an
\* association of the root entity
UnknownRootField(name) ==
  /\ \E i \in 1..Len(RootFields) :
       RootFields[i].kind = "Field" /\ RootFields[i].name = name
  /\ name \notin rawAttributes[model]
  /\ ~HasAssociation(model, name)

\* C4 (unknown field rejection): a selection naming a field that is neither
\* a known attribute nor a known association of the entity makes
\* getSequelizeQuery fail with an error naming the entity and the field.
C4_UnknownFieldRejected ==
  \A name \in {"bogus", "bestFriend", "team"} :
    (QueryDone /\ getSelectedFields(fieldNodes).ok /\ UnknownRootField(name)) =>
      /\ ~result.ok
      /\ result.msg = <<"Error", "Field not supported", model, name>>

---------------------------------------------------------------------------
(* C5, C6: resolveFragments called on a list of the caller *)

\* the list the call received
Received == (CHOOSE t \in touched : TRUE).before

\* C5 (expansion is complete): the list returned by resolveFragments holds
\* no fragment spread.
C5_NoSpreadRemains ==
  ExpandOk =>
    \A i \in 1..Len(result.val) : result.val[i].node.kind # "FragmentSpread"

\* C6 as stated (expansion preserves position): the contents of a fragment
\* stand where its spread stood: after the fields that preceded the spread
\* and before the fields that followed it.
C6_ContentsAtSpreadPosition ==
  ExpandOk =>
    \A i, j \in 1..Len(result.val) :
      LET x == result.val[i]
          y == result.val[j]
      IN (x.from # 0 /\ y.from = 0) =>
           /\ y.uid < x.from => j < i
           /\ y.uid > x.from => i < j

\* the contents of the fragment that the spread at position s of the
\* received list names
ContentsOf(s) == fragments[Received[s].name]

\* C6 amended: the elements of the received list that remain keep their
\* relative order, every field of it remains, and the contents of every
\* expanded fragment stand behind all of them, at the end of the list, in
\* the order the fragment lists them.
C6_ContentsAppended ==
  ExpandOk =>
    /\ \A i, j \in 1..Len(result.val) :
         LET x == result.val[i]
             y == result.val[j]
         IN /\ (x.from = 0 /\ y.from = 0 /\ i < j) => x.uid < y.uid
            /\ (x.from = 0 /\ y.from # 0) => i < j
    /\ \A k \in 1..Len(Received) :
         Received[k].kind = "Field" =>
           \E i \in 1..Len(result.val) :
             /\ result.val[i].from = 0
             /\ result.val[i].uid = k
             /\ result.val[i].node = Received[k]
    /\ \A i \in 1..Len(result.val) :
         result.val[i].from # 0 =>
           \E c \in 1..Len(ContentsOf(result.val[i].from)) :
             /\ i - c >= 0
             /\ i - c + Len(ContentsOf(result.val[i].from)) <= Len(result.val)
             /\ \A d \in 1..Len(ContentsOf(result.val[i].from)) :
                  /\ result.val[i - c + d].from = result.val[i].from
                  /\ result.val[i - c + d].node = ContentsOf(result.val[i].from)[d]

\* a spread followed by a field was expanded: the field now precedes the
\* fragment's contents
C6_Witness ==
  /\ ExpandOk
  /\ \E i, j \in 1..Len(result.val) :
       /\ result.val[i].from = 0 /\ result.val[i].node.kind = "Field"
       /\ result.val[j].from # 0
       /\ result.val[i].uid > result.val[j].from
       /\ i < j

---------------------------------------------------------------------------
(* C7 *)

HasArgument(field, name) ==
  \E i \in 1..Len(field.arguments) : field.arguments[i].name = name

\* the value the last argument of that name resolves to
Resolved(field, name) ==
  LET last == CHOOSE i \in 1..Len(field.arguments) :
                /\ field.arguments[i].name = name
                /\ \A j \in (i + 1)..Len(field.arguments) :
                     field.arguments[j].name # name
  IN ArgumentValue(field.arguments[last])

NonzeroLimit(field) ==
  /\ HasArgument(field, "limit")
  /\ Resolved(field, "limit").t = "num"
  /\ Resolved(field, "limit").v # 0

ZeroOrNoLimit(field) ==
  HasArgument(field, "limit") =>
    Resolved(field, "limit").t = "num" /\ Resolved(field, "limit").v = 0

\* C7 (order/limit forces separate): a node built from a field with an
\* orderBy argument or a nonzero limit argument has separate = true, a node
\* built from a field with neither (or limit 0) has separate = false, and
\* every non-root node carrying an order list or a positive limit has
\* separate = true.
C7_SeparateCoupling ==
  QueryOk =>
    /\ \A b \in Built(RootFields, result.val.include, model) :
         /\ (HasArgument(b.field, "orderBy") \/ NonzeroLimit(b.field))
              => b.node.separate = Bool(TRUE)
         /\ (~HasArgument(b.field, "orderBy") /\ ZeroOrNoLimit(b.field))
              => b.node.separate = Bool(FALSE)
    /\ \A node \in Subtree(result.val.include) :
         (node.order.t = "list" \/ (node.limit.t = "num" /\ node.limit.v > 0))
           => node.separate = Bool(TRUE)

\* a node built from a field with a nonzero limit bound through a variable
\* and no orderBy, and one built from a field with limit 0
C7_Witness ==
  /\ QueryOk
  /\ \E b \in Built(RootFields, result.val.include, model) :
       /\ ~HasArgument(b.field, "orderBy")
       /\ NonzeroLimit(b.field)
       /\ \E i \in 1..Len(b.field.arguments) :
            b.field.arguments[i].value.kind = "Variable"
       /\ b.node.separate = Bool(TRUE)
  /\ \E b \in Built(RootFields, result.val.include, model) :
       HasArgument(b.field, "limit") /\ b.node.separate = Bool(FALSE)

---------------------------------------------------------------------------
(* C8 *)

\* the shape of a node that stands for one leg of a qualified path
LegShape(node) ==
  /\ node.attributes = List(primaryKeyAttributes[node.model])
  /\ node.where = Undef
  /\ node.order = Undef
  /\ node.limit = Undef
  /\ \A i \in 1..Len(node.include) :
       /\ node.include[i].as \in DOMAIN associations[node.model]
       /\ node.include[i].model = associations[node.model][node.include[i].as]
  /\ \A i, j \in 1..Len(node.include) :
       i # j => node.include[i].as # node.include[j].as

RECURSIVE LegsPresent(_, _, _)
\* every leg of the path has a node of its alias and target entity
LegsPresent(legs, includes, m) ==
  \/ legs = <<>>
  \/ \E i \in 1..Len(includes) :
       /\ includes[i].as = Head(legs)
       /\ includes[i].model = associations[m][Head(legs)]
       /\ LegsPresent(Tail(legs), includes[i].include, includes[i].model)

---------------------------------------------------------------------------
(* C9 *)

---------------------------------------------------------------------------
(* C10 *)

\* C10 (the caller's input is unchanged): after getSequelizeQuery, failed
\* or not, every selection list that was expanded holds the nodes it held
\* before, in the same order, and a filter is attached to the root node as
\* it was passed.
C10_InputUnchanged ==
  QueryDone =>
    /\ \A t \in touched : t.after = t.before
    /\ \A i \in 1..Len(fieldNodes) :
         fieldNodes[i].selectionSet.t = "set" =>
           \E t \in touched : t.after = fieldNodes[i].selectionSet.selections
    /\ (result.ok /\ Truthy(args.where)) => result.val.where = args.where

HasSpread(list) == \E i \in 1..Len(list) : list[i].kind = "FragmentSpread"

\* a request whose root list and one nested list hold spreads was compiled
\* with a filter
C10_Witness ==
  /\ QueryOk
  /\ HasSpread(fieldNodes[1].selectionSet.selections)
  /\ \E t \in touched :
       HasSpread(t.before) /\ t.before # fieldNodes[1].selectionSet.selections
  /\ Truthy(args.where)

====
